---------------------------- MODULE Spec2Model ----------------------------
(***************************************************************************)
(* rclip: the incremental index synchronisation (RClip.ensure_index with   *)
(* RClip._index_files) and the query ranking (RClip.search) of             *)
(* src/rclip/main.py, over a persistent store of image records and a       *)
(* directory tree on disk.                                                 *)
(***************************************************************************)
EXTENDS Integers, Sequences, FiniteSets, TLC

(***************************************************************************)
(* Bounds of the model.                                                    *)
(***************************************************************************)
MaxBatchSize == 2       \* indexing_batch_size ranges over 1..MaxBatchSize
MaxTime == 2            \* modification times range over 1..MaxTime
MaxFsOps == 1           \* file system changes made after the initial tree
MaxRuns == 2            \* calls of ensure_index
MaxFaults == 1          \* transient faults (stat, hashing, extraction)
MaxTopK == 3            \* top_k ranges over 0..MaxTopK

(***************************************************************************)
(* Program constants.                                                      *)
(***************************************************************************)
DB_IMAGES_BEFORE_COMMIT == 50000

(***************************************************************************)
(* Paths are sequences of components.  The tree holds one file directly    *)
(* in r and two files in its subdirectory r/s, so that a run on r/s leaves *)
(* a record outside its root, and one image inside an excluded directory.  *)
(***************************************************************************)
PA == <<"r", "a.jpg">>
PB == <<"r", "s", "b.jpg">>
PC == <<"r", "s", "c.png">>
PX == <<"r", ".git", "x.jpg">>
TreePaths == {PA, PB, PC}        \* the files that come and go
Paths == TreePaths \cup {PX}
PathOrder == <<PA, PX, PB, PC>>
Dirs == {<<"r">>, <<"r", "s">>}

\* EXCLUDE_DIRS_DEFAULT (line 45)
EXCLUDE_DIRS_DEFAULT == {"@eaDir", "node_modules", ".git"}

\* _exclude_dir_regex (lines 64-65): an excluded name as a whole component,
\* with something before it
exclude_dir_match(p) == \E i \in 2..Len(p) : p[i] \in EXCLUDE_DIRS_DEFAULT

Times == 1..MaxTime
BatchSizes == 1..MaxBatchSize

\* File contents: two images and one content that is no image.
Contents == {"H1", "H2", "BAD"}
SizeOf(c) == CASE c = "H1" -> 10 [] c = "H2" -> 20 [] OTHER -> 10

NoFile == [content |-> "-", modified_at |-> 0]
NoRec == [modified_at |-> 0, size |-> 0, hash |-> "-", vector |-> "-",
          indexing |-> FALSE]

Min(a, b) == IF a < b THEN a ELSE b

RECURSIVE SeqToSet(_)
SeqToSet(s) == IF s = <<>> THEN {} ELSE {Head(s)} \cup SeqToSet(Tail(s))

(***************************************************************************)
(* The file system.                                                        *)
(***************************************************************************)
\* filepath LIKE directory + sep + '%'
Under(p, d) == Len(p) > Len(d) /\ SubSeq(p, 1, Len(d)) = d

\* fs.walk: the existing files under directory outside the excluded
\* directories, in a fixed order
walk(fsys, d) ==
  SelectSeq(PathOrder, LAMBDA p : /\ Under(p, d) /\ fsys[p] # NoFile
                                  /\ ~exclude_dir_match(p))

\* get_image_meta: the stat of a directory entry
get_image_meta(fsys, p) ==
  [modified_at |-> fsys[p].modified_at, size |-> SizeOf(fsys[p].content)]

\* is_image_meta_equal: every key of meta agrees with the record
is_image_meta_equal(image, meta) ==
  /\ meta.modified_at = image.modified_at
  /\ meta.size = image.size

\* Image.open succeeds on image content only
Decodable(fsys, p) == fsys[p].content # "BAD"

\* _compute_image_hash: the digest identifies the content
compute_image_hash(fsys, p) == fsys[p].content

\* model.compute_image_features: one vector per image, in order
compute_image_features(images) == [i \in 1..Len(images) |-> images[i]]

(***************************************************************************)
(* The index store (rclip.db): one record per filepath.                    *)
(***************************************************************************)
get_image(st, p) == st[p]

HasHash(st, h) == \E p \in Paths : st[p] # NoRec /\ st[p].hash = h

\* get_image_by_hash: the path of a record with this hash
get_image_by_hash(st, h) ==
  CHOOSE p \in Paths : st[p] # NoRec /\ st[p].hash = h

remove_indexing_flag_from_all_images(st) ==
  [p \in Paths |-> IF st[p] = NoRec THEN NoRec
                   ELSE [st[p] EXCEPT !.indexing = FALSE]]

flag_images_in_a_dir_as_indexing(st, d) ==
  [p \in Paths |-> IF st[p] # NoRec /\ Under(p, d)
                   THEN [st[p] EXCEPT !.indexing = TRUE] ELSE st[p]]

remove_indexing_flag(st, p) ==
  IF st[p] = NoRec THEN st ELSE [st EXCEPT ![p].indexing = FALSE]

flag_indexing_images_in_a_dir_as_deleted(st, d) ==
  [p \in Paths |-> IF st[p] # NoRec /\ Under(p, d) /\ st[p].indexing
                   THEN NoRec ELSE st[p]]

\* upsert_image: insert or full update; a written record carries no flag
upsert_image(st, p, meta, vector, hash) ==
  [st EXCEPT ![p] = [modified_at |-> meta.modified_at, size |-> meta.size,
                     hash |-> hash, vector |-> vector, indexing |-> FALSE]]

\* update_image_filepath: rewrites the path field only; filepath is a
\* unique key, so a rewrite onto the path of another record is refused
update_image_filepath_ok(st, old, new) == st[new] = NoRec
update_image_filepath(st, old, new) ==
  [st EXCEPT ![new] = st[old], ![old] = NoRec]


(***************************************************************************)
(* RClip._index_files (lines 71-103).  hf is the set of paths whose read   *)
(* for hashing fails after a successful Image.open; extract_ok says        *)
(* whether model.compute_image_features returns.                           *)
(***************************************************************************)
\* lines 75-79: the paths that Image.open accepts
filtered_paths(fsys, filepaths) ==
  SelectSeq(filepaths, LAMBDA p : Decodable(fsys, p))

\* lines 77-78: the decoded images, one per accepted path
opened_images(fsys, filepaths) ==
  LET fp == filtered_paths(fsys, filepaths)
  IN  [i \in 1..Len(fp) |-> fsys[fp[i]].content]

\* line 80: the digests, appended only when the read succeeds
computed_hashes(fsys, filepaths, hf) ==
  LET ok == SelectSeq(filepaths, LAMBDA p : Decodable(fsys, p) /\ p \notin hf)
  IN  [i \in 1..Len(ok) |-> compute_image_hash(fsys, ok[i])]

\* line 91: zip stops at the shortest of its four arguments
zip_len(fp, ms, ft, hs) == Min(Min(Len(fp), Len(ms)), Min(Len(ft), Len(hs)))

\* lines 92-103: one iteration of the loop over the zip
reconcile_one(st, path, meta, vector, hash) ==
  IF HasHash(st, hash) /\ get_image_by_hash(st, hash) # path
  THEN LET old == get_image_by_hash(st, hash)
       IN  IF update_image_filepath_ok(st, old, path)
           THEN [store |-> update_image_filepath(st, old, path),
                 error |-> "none"]
           ELSE [store |-> st, error |-> "StoreWriteError"]
  ELSE [store |-> upsert_image(st, path, meta, vector, hash),
        error |-> "none"]

\* lines 91-103: the loop over the zip, left at the first store error
RECURSIVE reconcile(_, _, _, _, _, _)
reconcile(st, fp, ms, ft, hs, i) ==
  IF i > zip_len(fp, ms, ft, hs)
  THEN [store |-> st, error |-> "none"]
  ELSE LET r == reconcile_one(st, fp[i], ms[i], ft[i], hs[i])
       IN  IF r.error # "none" THEN r
           ELSE reconcile(r.store, fp, ms, ft, hs, i + 1)

\* lines 86-90 without the except clause and its return
index_files_unguarded(st, fsys, filepaths, ms, hf, extract_ok) ==
  reconcile(st, filtered_paths(fsys, filepaths), ms,
            compute_image_features(opened_images(fsys, filepaths)),
            computed_hashes(fsys, filepaths, hf), 1)

\* lines 71-103
index_files(st, fsys, filepaths, ms, hf, extract_ok) ==
  IF ~extract_ok
  THEN [store |-> st, error |-> "none"]
  ELSE reconcile(st, filtered_paths(fsys, filepaths), ms,
                 compute_image_features(opened_images(fsys, filepaths)),
                 computed_hashes(fsys, filepaths, hf), 1)

(***************************************************************************)
(* State.                                                                  *)
(***************************************************************************)
VARIABLES
  fs,                \* the directory tree: path -> file or NoFile
  store,             \* the records as the open session sees them
  committed,         \* the records as of the last commit
  batchSize,         \* self._indexing_batch_size
  pc,                \* position of the main thread in ensure_index
  directory,         \* argument of the current or last ensure_index
  todo,              \* entries fs.walk has still to yield
  batch, metas,      \* locals of ensure_index
  images_processed,  \* local of ensure_index
  counter_thread,    \* "none", "running", "finished" or "joined"
  outcome,           \* how the last ensure_index ended
  calls,             \* compute_image_features calls of this run
  largest,           \* most images handed to one such call in this run
  eligible,          \* entries appended to a batch in this run
  extracted,         \* paths whose image went to compute_image_features
  failed,            \* paths of the batches whose extraction call failed
  startStore,        \* the store when this run (or the run it resumes) began
  mode,              \* "fresh", "repeat" (after a returned run, same tree)
                     \* or "resume" (after a killed run, same tree)
  fsChanged,         \* the tree changed since the last run started
  fsOps, runs, faults,
  sq,                \* the arguments of the last search
  result,            \* what the last search returned
  examined           \* ranking elements the last search consumed

vars == <<fs, store, committed, batchSize, pc, directory, todo, batch, metas,
          images_processed, counter_thread, outcome, calls, largest,
          eligible, extracted, failed, startStore, mode, fsChanged, fsOps,
          runs, faults, sq, result, examined>>

runLocals == <<todo, batch, metas, images_processed>>
observers == <<calls, largest, eligible, extracted, failed>>
history == <<startStore, mode>>
searchVars == <<sq, result, examined>>
indexVars == <<fs, store, committed, batchSize, pc, directory, todo, batch,
               metas, images_processed, counter_thread, outcome, calls,
               largest, eligible, extracted, failed, startStore, mode,
               fsChanged, fsOps, runs, faults>>

Files == [content : Contents, modified_at : Times]
EmptyStore == [p \in Paths |-> NoRec]

Max(a, b) == IF a > b THEN a ELSE b

NoSearch == [directory |-> <<>>,
             query |-> [kind |-> "text", path |-> <<>>], top_k |-> 0,
             positive_queries |-> <<>>, negative_queries |-> <<>>,
             sorted_similarities |-> <<>>]

\* The state of the program before any call of ensure_index or search.
Idle ==
  /\ batchSize \in BatchSizes
  /\ pc = "idle"
  /\ directory = <<"r">>
  /\ todo = <<>> /\ batch = <<>> /\ metas = <<>>
  /\ images_processed = 0
  /\ counter_thread = "none"
  /\ outcome = "none"
  /\ calls = 0 /\ largest = 0 /\ eligible = 0
  /\ extracted = {} /\ failed = {}
  /\ startStore = EmptyStore
  /\ mode = "fresh"
  /\ fsChanged = FALSE
  /\ fsOps = 0 /\ runs = 0 /\ faults = 0
  /\ sq = NoSearch /\ result = <<>> /\ examined = 0

\* the image inside the excluded directory
ExcludedFile == [content |-> "H2", modified_at |-> 1]

\* A fresh database and any tree on disk.
Init ==
  /\ fs \in [Paths -> Files \cup {NoFile}]
  /\ fs[PX] = ExcludedFile
  /\ store = EmptyStore
  /\ committed = EmptyStore
  /\ Idle

(***************************************************************************)
(* The environment: the tree changes between runs.                         *)
(***************************************************************************)
\* Init ranges over every tree, and a change after the last run is seen by
\* no run: the changes that matter lie between two runs.
FsChange(newfs) ==
  /\ pc = "idle"
  /\ fsOps < MaxFsOps
  /\ 0 < runs /\ runs < MaxRuns
  /\ newfs # fs
  /\ fs' = newfs
  /\ fsChanged' = TRUE
  /\ fsOps' = fsOps + 1
  /\ UNCHANGED searchVars
  /\ UNCHANGED <<store, committed, batchSize, pc, directory, runLocals,
                 counter_thread, outcome, observers, history, runs, faults>>

\* create or overwrite a file
FsWrite ==
  \E p \in TreePaths, f \in Files : FsChange([fs EXCEPT ![p] = f])

FsDelete ==
  \E p \in TreePaths : fs[p] # NoFile /\ FsChange([fs EXCEPT ![p] = NoFile])

\* rename keeps content and modification time
FsRename ==
  \E p \in TreePaths, q \in TreePaths :
    /\ fs[p] # NoFile /\ fs[q] = NoFile
    /\ FsChange([fs EXCEPT ![q] = fs[p], ![p] = NoFile])

(***************************************************************************)
(* RClip.ensure_index (lines 105-167).                                     *)
(***************************************************************************)
\* The locals and the store as one value, for the steps below.
Local ==
  [store |-> store, committed |-> committed, batch |-> batch,
   metas |-> metas, images_processed |-> images_processed,
   error |-> "none", calls |-> calls, largest |-> largest,
   eligible |-> eligible, extracted |-> extracted, failed |-> failed]

\* lines 112-113: global unflag, local flag, commit
mark(st, d) ==
  flag_images_in_a_dir_as_indexing(remove_indexing_flag_from_all_images(st), d)

\* lines 154-156 and 161: one call of _index_files on the current batch
flush(L, fsys, hf, extract_ok) ==
  LET r == index_files(L.store, fsys, L.batch, L.metas, hf, extract_ok)
  IN  [L EXCEPT !.store = r.store, !.error = r.error,
                !.calls = @ + 1,
                !.largest = Max(@, Len(opened_images(fsys, L.batch))),
                !.extracted = @ \cup SeqToSet(filtered_paths(fsys, L.batch)),
                !.failed = IF extract_ok THEN @ ELSE @ \cup SeqToSet(L.batch),
                !.batch = <<>>, !.metas = <<>>]

\* line 153 with > for >=
batch_full_strict(b, B) == Len(b) > B

\* line 153
batch_full(b, B) == Len(b) >= B

\* lines 131-156: the body of the loop for one entry
loop_body(L, fsys, filepath, B, stat_ok, hf, extract_ok) ==
  LET image == get_image(L.store, filepath)
      meta == get_image_meta(fsys, filepath)
  IN  IF ~stat_ok THEN L
      ELSE
        LET L1 == [L EXCEPT
                     !.committed =
                        IF L.images_processed % DB_IMAGES_BEFORE_COMMIT = 0
                        THEN L.store ELSE @,
                     !.images_processed = @ + 1]
        IN  IF image # NoRec /\ is_image_meta_equal(image, meta)
            THEN [L1 EXCEPT !.store = remove_indexing_flag(@, filepath)]
            ELSE
              LET L2 == [L1 EXCEPT !.batch = Append(@, filepath),
                                   !.metas = Append(@, meta),
                                   !.eligible = @ + 1]
              IN  IF batch_full(L2.batch, B)
                  THEN flush(L2, fsys, hf, extract_ok)
                  ELSE L2

\* The faults a step draws, and the choices that are the same step.
FaultCost(stat_ok, hf, extract_ok) ==
  (IF stat_ok THEN 0 ELSE 1) + (IF hf = {} THEN 0 ELSE 1)
    + (IF extract_ok THEN 0 ELSE 1)

FlushChoice(b, hf, extract_ok, flushes) ==
  IF flushes
  THEN hf \subseteq {p \in SeqToSet(b) : Decodable(fs, p)}
  ELSE hf = {} /\ extract_ok

\* The exception caught, and the sweep of line 166 run on the way out.
Raise_and_sweep(L) ==
  /\ pc' = "idle"
  /\ outcome' = L.error
  /\ store' = flag_indexing_images_in_a_dir_as_deleted(L.store, directory)
  /\ committed' = store'
  /\ todo' = <<>> /\ batch' = <<>> /\ metas' = <<>>
  /\ images_processed' = L.images_processed
  /\ calls' = L.calls /\ largest' = L.largest /\ eligible' = L.eligible
  /\ extracted' = L.extracted /\ failed' = L.failed

\* An exception leaves ensure_index: the session's uncommitted changes are
\* lost with it, and the counting thread is left as it is.
Raise(L) ==
  /\ pc' = "idle"
  /\ outcome' = L.error
  /\ store' = L.committed
  /\ committed' = L.committed
  /\ todo' = <<>> /\ batch' = <<>> /\ metas' = <<>>
  /\ images_processed' = L.images_processed
  /\ calls' = L.calls /\ largest' = L.largest /\ eligible' = L.eligible
  /\ extracted' = L.extracted /\ failed' = L.failed

Continue(L, next) ==
  /\ pc' = next
  /\ outcome' = outcome
  /\ store' = L.store
  /\ committed' = L.committed
  /\ batch' = L.batch /\ metas' = L.metas
  /\ images_processed' = L.images_processed
  /\ calls' = L.calls /\ largest' = L.largest /\ eligible' = L.eligible
  /\ extracted' = L.extracted /\ failed' = L.failed

\* lines 112-127: mark, commit, start the counting thread, set the locals
Start ==
  \E d \in Dirs :
    /\ pc = "idle"
    /\ runs < MaxRuns
    /\ runs' = runs + 1
    /\ directory' = d
    /\ store' = mark(store, d)
    /\ committed' = mark(store, d)
    /\ counter_thread' = "running"
    /\ todo' = walk(fs, d)
    /\ batch' = <<>> /\ metas' = <<>>
    /\ images_processed' = 0
    /\ calls' = 0 /\ largest' = 0 /\ eligible' = 0
    /\ extracted' = {} /\ failed' = {}
    /\ pc' = "loop"
    /\ LET same == d = directory /\ ~fsChanged
       IN  /\ mode' = IF same /\ outcome = "returned" THEN "repeat"
                      ELSE IF same /\ outcome = "killed" THEN "resume"
                      ELSE "fresh"
           /\ startStore' = IF same /\ outcome = "killed"
                            THEN startStore ELSE store
    /\ fsChanged' = FALSE
    /\ UNCHANGED searchVars
    /\ UNCHANGED <<fs, batchSize, outcome, fsOps, faults>>

\* lines 130-156: one iteration of the loop
LoopEntry ==
  /\ pc = "loop" /\ todo # <<>>
  /\ \E stat_ok \in BOOLEAN, extract_ok \in BOOLEAN, hf \in SUBSET Paths :
       LET L == loop_body(Local, fs, Head(todo), batchSize,
                          stat_ok, hf, extract_ok)
       IN  /\ faults + FaultCost(stat_ok, hf, extract_ok) <= MaxFaults
           /\ FlushChoice(Append(batch, Head(todo)), hf, extract_ok,
                          L.calls > calls)
           /\ faults' = faults + FaultCost(stat_ok, hf, extract_ok)
           /\ IF L.error # "none"
              THEN Raise(L)
              ELSE Continue(L, "loop") /\ todo' = Tail(todo)
  /\ UNCHANGED searchVars
  /\ UNCHANGED <<fs, batchSize, directory, counter_thread, history,
                 fsChanged, fsOps, runs>>

\* lines 157-159: the average lookup time divides by images_processed
LoopEnd ==
  /\ pc = "loop" /\ todo = <<>>
  /\ IF images_processed = 0
     THEN Raise([Local EXCEPT !.error = "ZeroDivisionError"])
     ELSE Continue(Local, "flush") /\ todo' = todo
  /\ UNCHANGED searchVars
  /\ UNCHANGED <<fs, batchSize, directory, counter_thread, history,
                 fsChanged, fsOps, runs, faults>>

\* lines 160-161: the trailing flush
TrailingFlush ==
  /\ pc = "flush"
  /\ \E extract_ok \in BOOLEAN, hf \in SUBSET Paths :
       LET L == IF Len(batch) # 0
                THEN flush(Local, fs, hf, extract_ok) ELSE Local
       IN  /\ faults + FaultCost(TRUE, hf, extract_ok) <= MaxFaults
           /\ FlushChoice(batch, hf, extract_ok, Len(batch) # 0)
           /\ faults' = faults + FaultCost(TRUE, hf, extract_ok)
           /\ IF L.error # "none"
              THEN Raise(L)
              ELSE Continue(L, "commit") /\ todo' = todo
  /\ UNCHANGED searchVars
  /\ UNCHANGED <<fs, batchSize, directory, counter_thread, history,
                 fsChanged, fsOps, runs>>

\* line 163
FinalCommit ==
  /\ pc = "commit"
  /\ committed' = store
  /\ pc' = "join"
  /\ UNCHANGED searchVars
  /\ UNCHANGED <<fs, store, batchSize, directory, runLocals, counter_thread,
                 outcome, observers, history, fsChanged, fsOps, runs, faults>>

\* line 164: join returns once the counting thread has finished
Join ==
  /\ pc = "join"
  /\ counter_thread = "finished"
  /\ counter_thread' = "joined"
  /\ pc' = "sweep"
  /\ UNCHANGED searchVars
  /\ UNCHANGED <<fs, store, committed, batchSize, directory, runLocals,
                 outcome, observers, history, fsChanged, fsOps, runs, faults>>

\* line 166 left out: the run returns without the sweep
Sweep_skipped ==
  /\ pc = "sweep"
  /\ store' = store
  /\ committed' = store'
  /\ pc' = "idle"
  /\ outcome' = "returned"
  /\ todo' = <<>> /\ batch' = <<>> /\ metas' = <<>>
  /\ UNCHANGED searchVars
  /\ UNCHANGED <<fs, batchSize, directory, images_processed, counter_thread,
                 observers, history, fsChanged, fsOps, runs, faults>>

\* line 166: delete what is still flagged under directory, and return
Sweep ==
  /\ pc = "sweep"
  /\ store' = flag_indexing_images_in_a_dir_as_deleted(store, directory)
  /\ committed' = store'
  /\ pc' = "idle"
  /\ outcome' = "returned"
  /\ todo' = <<>> /\ batch' = <<>> /\ metas' = <<>>
  /\ UNCHANGED searchVars
  /\ UNCHANGED <<fs, batchSize, directory, images_processed, counter_thread,
                 observers, history, fsChanged, fsOps, runs, faults>>

\* lines 119-123: fs.count_files in its own thread; it touches no record
CounterFinish ==
  /\ counter_thread = "running"
  /\ counter_thread' = "finished"
  /\ UNCHANGED searchVars
  /\ UNCHANGED <<fs, store, committed, batchSize, pc, directory, runLocals,
                 outcome, observers, history, fsChanged, fsOps, runs, faults>>

\* The process is stopped inside ensure_index after the commit of line 113
\* and before line 166: the next session sees the last committed state.
Kill ==
  /\ pc \in {"loop", "flush", "commit", "join", "sweep"}
  /\ store' = committed
  /\ pc' = "idle"
  /\ outcome' = "killed"
  /\ counter_thread' = "none"
  /\ todo' = <<>> /\ batch' = <<>> /\ metas' = <<>>
  /\ UNCHANGED searchVars
  /\ UNCHANGED <<fs, committed, batchSize, directory, images_processed,
                 observers, history, fsChanged, fsOps, runs, faults>>

\* Runs that end on their own.
Next ==
  \/ FsWrite \/ FsDelete \/ FsRename
  \/ Start \/ LoopEntry \/ LoopEnd \/ TrailingFlush \/ FinalCommit
  \/ Join \/ Sweep \/ CounterFinish

Spec == Init /\ [][Next]_vars

\* Runs that may also be stopped from outside.
CrashNext ==
  \/ FsWrite \/ FsDelete \/ FsRename
  \/ Start \/ LoopEntry \/ LoopEnd \/ TrailingFlush \/ FinalCommit
  \/ Join \/ Sweep \/ CounterFinish \/ Kill

CrashSpec == Init /\ [][CrashNext]_vars

\* Runs over a tree that stays as it is, each step of the main thread and
\* of the counting thread taken in the end: both are threads of a running
\* process, and the tree they walk is finite.
TermNext ==
  \/ Start \/ LoopEntry \/ LoopEnd \/ TrailingFlush \/ FinalCommit
  \/ Join \/ Sweep \/ CounterFinish

Fairness ==
  /\ WF_vars(LoopEntry) /\ WF_vars(LoopEnd) /\ WF_vars(TrailingFlush)
  /\ WF_vars(FinalCommit) /\ WF_vars(Join) /\ WF_vars(Sweep)
  /\ WF_vars(CounterFinish)

TermSpec == Init /\ [][TermNext]_vars /\ Fairness

(***************************************************************************)
(* RClip.search (lines 169-191).  A query is a text or a file reference,   *)
(* absolute or relative to the working directory, which main() (lines 228  *)
(* and 241) also passes as the directory to search.                        *)
(***************************************************************************)
TextQuery == [kind |-> "text", path |-> <<"cat">>]
AbsQuery(p) == [kind |-> "abs", path |-> p]
RelQuery(p) == [kind |-> "rel", path |-> p]
Queries ==
  {TextQuery, AbsQuery(PA), AbsQuery(PB), RelQuery(<<"s", "c.png">>),
   RelQuery(<<"c.png">>)}

\* helpers.is_file_path
is_file_path(q) == q.kind # "text"

\* os.path.abspath: a relative path is taken from the working directory
abspath(cwd, q) == IF q.kind = "abs" THEN q.path ELSE cwd \o q.path

\* lines 178-180 without os.path.abspath
exclude_files_raw(cwd, queries) ==
  {queries[i].path : i \in {j \in 1..Len(queries) : is_file_path(queries[j])}}

\* lines 178-180
exclude_files(cwd, queries) ==
  {abspath(cwd, queries[i]) :
     i \in {j \in 1..Len(queries) : is_file_path(queries[j])}}

\* _get_features (lines 193-201): the paths of the records under directory
get_features(st, d) ==
  SelectSeq(PathOrder, LAMBDA p : Under(p, d) /\ st[p] # NoRec)

\* lines 183-186 without the match of _exclude_dir_regex
survives_any_dir(filepaths, excluded, similarity) ==
  filepaths[similarity.index] \notin excluded

\* lines 183-186: the predicate of the filter
survives(filepaths, excluded, similarity) ==
  /\ ~exclude_dir_match(filepaths[similarity.index])
  /\ filepaths[similarity.index] \notin excluded

\* lines 182-189 with the filter run to its end before the slice is taken
top_k_similarities_eager(sims, filepaths, excluded, k) ==
  LET kept == SelectSeq(sims, LAMBDA x : survives(filepaths, excluded, x))
  IN  [out |-> SubSeq(kept, 1, Min(k, Len(kept))), examined |-> Len(sims)]

\* lines 182-189: islice over filter pulls from the ranking until it has
\* handed out top_k survivors
RECURSIVE top_k_similarities(_, _, _, _)
top_k_similarities(sims, filepaths, excluded, k) ==
  IF k = 0 \/ sims = <<>> THEN [out |-> <<>>, examined |-> 0]
  ELSE
    LET keep == survives(filepaths, excluded, Head(sims))
        rest == top_k_similarities(Tail(sims), filepaths, excluded,
                                   IF keep THEN k - 1 ELSE k)
    IN  [out |-> IF keep THEN <<Head(sims)>> \o rest.out ELSE rest.out,
         examined |-> rest.examined + 1]

\* lines 169-191 with the result list in ascending score order
search_reversed(st, q) ==
  LET filepaths == get_features(st, q.directory)
      positive_queries == <<q.query>> \o q.positive_queries
      excluded == exclude_files(q.directory,
                                positive_queries \o q.negative_queries)
      t == top_k_similarities(q.sorted_similarities, filepaths, excluded,
                              q.top_k)
  IN  [results |-> [i \in 1..Len(t.out) |->
                      [filepath |-> filepaths[t.out[Len(t.out) + 1 - i].index],
                       score |-> t.out[Len(t.out) + 1 - i].score]],
       examined |-> t.examined]

search(st, q) ==
  LET filepaths == get_features(st, q.directory)
      positive_queries == <<q.query>> \o q.positive_queries
      excluded == exclude_files(q.directory,
                                positive_queries \o q.negative_queries)
      t == top_k_similarities(q.sorted_similarities, filepaths, excluded,
                              q.top_k)
  IN  [results |-> [i \in 1..Len(t.out) |->
                      [filepath |-> filepaths[t.out[i].index],
                       score |-> t.out[i].score]],
       examined |-> t.examined]

\* model.compute_similarities_to_text: every index once, by descending score
Rankings(n) ==
  {[i \in 1..n |-> [score |-> n + 1 - i, index |-> f[i]]] :
     f \in Permutations(1..n)}

\* A store as some earlier runs, under any exclusion list, may have left it.
SearchRecord(p) ==
  [modified_at |-> 1, size |-> 10, hash |-> p[Len(p)], vector |-> p[Len(p)],
   indexing |-> FALSE]
SearchStores ==
  {[p \in Paths |-> IF p \in S THEN SearchRecord(p) ELSE NoRec] :
     S \in SUBSET Paths}

SearchInit ==
  /\ store \in SearchStores
  /\ fs = [p \in Paths |-> IF store[p] = NoRec THEN NoFile ELSE ExcludedFile]
  /\ committed = store
  /\ Idle
  /\ batchSize = 1

\* search reads the store and changes none of it, so the calls of one
\* behaviour do not depend on each other: one call per behaviour shows all.
Search ==
  /\ pc = "idle"
  /\ sq = NoSearch
  /\ \E d \in Dirs, query \in Queries, k \in 0..MaxTopK,
        pos \in {<<>>, <<AbsQuery(PB)>>},
        neg \in {<<>>, <<RelQuery(<<"s", "c.png">>)>>} :
       \E sims \in Rankings(Len(get_features(store, d))) :
         /\ sq' = [directory |-> d, query |-> query, top_k |-> k,
                   positive_queries |-> pos, negative_queries |-> neg,
                   sorted_similarities |-> sims]
         /\ result' = search(store, sq').results
         /\ examined' = search(store, sq').examined
  /\ UNCHANGED indexVars

SearchNext == Search

SearchSpec == SearchInit /\ [][SearchNext]_vars

(***************************************************************************)
(* A whole run of ensure_index over a static tree with no transient fault, *)
(* as the composition of the steps above: the store it leaves behind.      *)
(***************************************************************************)
RECURSIVE run_loop(_, _, _, _)
run_loop(L, fsys, entries, B) ==
  IF entries = <<>> \/ L.error # "none" THEN L
  ELSE run_loop(loop_body(L, fsys, Head(entries), B, TRUE, {}, TRUE),
                fsys, Tail(entries), B)

ensure_index(st, fsys, d, B) ==
  LET L0 == [store |-> mark(st, d), committed |-> mark(st, d),
             batch |-> <<>>, metas |-> <<>>, images_processed |-> 0,
             error |-> "none", calls |-> 0, largest |-> 0, eligible |-> 0,
             extracted |-> {}, failed |-> {}]
      L1 == run_loop(L0, fsys, walk(fsys, d), B)
      L2 == IF Len(L1.batch) # 0 THEN flush(L1, fsys, {}, TRUE) ELSE L1
  IN  IF L1.error # "none" \/ L1.images_processed = 0 THEN L1.committed
      ELSE IF L2.error # "none" THEN L2.committed
      ELSE flag_indexing_images_in_a_dir_as_deleted(L2.store, d)

(***************************************************************************)
(* The states the properties below speak about.                            *)
(***************************************************************************)
\* ensure_index has returned and the tree is the one it ran over
Returned == pc = "idle" /\ outcome = "returned" /\ ~fsChanged

\* ensure_index has ended on its own, by return or by an exception
Ended == pc = "idle" /\ outcome \in {"returned", "ZeroDivisionError",
                                     "StoreWriteError"}

\* every file under d is an image that decodes
AllDecodable(d) ==
  \A p \in Paths : Under(p, d) /\ fs[p] # NoFile => Decodable(fs, p)

RecordPaths(st, d) == {p \in Paths : Under(p, d) /\ st[p] # NoRec}

Ceil(n, b) == (n + b - 1) \div b

(***************************************************************************)
(* C10 -- Query self-exclusion: a positive or negative query that is a     *)
(* file reference whose absolute path is the filepath of a record under    *)
(* root never appears in the result of search, wherever it is ranked.      *)
(***************************************************************************)
AllQueries(q) == <<q.query>> \o q.positive_queries \o q.negative_queries

ResultPaths == {result[i].filepath : i \in 1..Len(result)}

C10_SelfExcluded ==
  \A i \in 1..Len(AllQueries(sq)) :
    LET q == AllQueries(sq)[i]
    IN  (is_file_path(q) /\ abspath(sq.directory, q) \in Paths
           /\ Under(abspath(sq.directory, q), sq.directory)
           /\ store[abspath(sq.directory, q)] # NoRec)
          => abspath(sq.directory, q) \notin ResultPaths

\* the query file is indexed under root, given relative to the working
\* directory, ranked first, and other records are returned
C10_Witness ==
  /\ sq # NoSearch
  /\ sq.query = RelQuery(<<"s", "c.png">>)
  /\ sq.directory = <<"r">>
  /\ store[PC] # NoRec
  /\ get_features(store, sq.directory)[sq.sorted_similarities[1].index] = PC
  /\ Len(result) >= 2

(***************************************************************************)
(* At most one record carries a given hash, so get_image_by_hash has one   *)
(* answer in every reachable state.                                        *)
(***************************************************************************)
HashUnique ==
  \A p, q \in Paths :
    store[p] # NoRec /\ store[q] # NoRec /\ p # q
      => store[p].hash # store[q].hash

(***************************************************************************)
(* C1 -- Deletion: when ensure_index(root) has ended over a tree in which  *)
(* a file c under root no longer exists, the store holds no record for c,  *)
(* whatever the rest of the tree, also when the scanner yields no entry.   *)
(***************************************************************************)
C1_Deletion ==
  (pc = "idle" /\ outcome \in {"returned", "ZeroDivisionError"}
     /\ ~fsChanged)
    => \A c \in Paths :
         Under(c, directory) /\ fs[c] = NoFile => store[c] = NoRec

(***************************************************************************)
(* C2 -- Rename preservation: a record for a with hash H and vector V,     *)
(* the file renamed from a to b under root (no other file has content H),  *)
(* then ensure_index(root): exactly one record has hash H, its path is b,  *)
(* its vector is V, and a has no record.                                   *)
(***************************************************************************)
Renamed(a, b) ==
  /\ a # b /\ Under(a, directory) /\ Under(b, directory)
  /\ startStore[a] # NoRec /\ startStore[b] = NoRec
  /\ fs[a] = NoFile /\ fs[b] # NoFile
  /\ fs[b].content = startStore[a].hash
  /\ \A q \in TreePaths \ {b} : fs[q].content # startStore[a].hash

C2_RenamePreserved ==
  \A a, b \in Paths :
    (Returned /\ mode # "resume" /\ faults = 0 /\ Renamed(a, b))
      => /\ store[b] # NoRec
         /\ store[b].hash = startStore[a].hash
         /\ store[b].vector = startStore[a].vector
         /\ store[a] = NoRec
         /\ \A q \in Paths \ {b} : store[q].hash # startStore[a].hash

(***************************************************************************)
(* C3 -- Idempotence: a second ensure_index(root) right after a returned   *)
(* one, with no change of the tree in between, calls the extraction        *)
(* collaborator zero times and leaves the record set as the first left it; *)
(* stated for the trees whose files all decode, with no transient fault.   *)
(***************************************************************************)
C3_Idempotent ==
  (pc = "idle" /\ outcome = "returned" /\ mode = "repeat" /\ faults = 0
     /\ AllDecodable(directory))
    => calls = 0 /\ store = startStore

(***************************************************************************)
(* C4 -- Crash tolerance: a run stopped after the commit of the local flag *)
(* and before the sweep, followed by a fresh ensure_index(root) over the   *)
(* same tree, ends in the store state of one uninterrupted run.            *)
(***************************************************************************)
C4_CrashTolerant ==
  (Ended /\ ~fsChanged /\ mode = "resume" /\ faults = 0)
    => store = ensure_index(startStore, fs, directory, batchSize)

(***************************************************************************)
(* C5 -- After a returned ensure_index(D) no record under D is flagged.    *)
(***************************************************************************)
C5_NoFlagLeft ==
  (pc = "idle" /\ outcome = "returned")
    => \A p \in Paths : Under(p, directory) => ~store[p].indexing

\* a returned run that confirmed one record and swept another
C5_Witness ==
  /\ pc = "idle" /\ outcome = "returned"
  /\ \E p, q \in Paths :
       /\ Under(p, directory) /\ Under(q, directory)
       /\ startStore[p] # NoRec /\ store[p] # NoRec
       /\ startStore[q] # NoRec /\ store[q] = NoRec /\ fs[q] = NoFile

(***************************************************************************)
(* C6 -- After a returned ensure_index(D) every record under D carries the *)
(* modification time and size its file has on disk.                        *)
(***************************************************************************)
C6_MetaCurrent ==
  (Returned /\ faults = 0)
    => \A p \in Paths :
         Under(p, directory) /\ store[p] # NoRec
           => /\ fs[p] # NoFile
              /\ is_image_meta_equal(store[p], get_image_meta(fs, p))

(***************************************************************************)
(* C7 -- filepath stays unique: no rename-detection rewrite is ever        *)
(* directed at a path that already has a record of its own.                *)
(***************************************************************************)
C7_NoRewriteOntoRecord == outcome # "StoreWriteError"

(***************************************************************************)
(* C8 -- Up to date: after a returned ensure_index(root) without decode,   *)
(* stat or extraction error, the record paths under root are the files the *)
(* scanner yields under root.                                              *)
(***************************************************************************)
C8_UpToDate ==
  (Returned /\ faults = 0 /\ AllDecodable(directory))
    => RecordPaths(store, directory) = SeqToSet(walk(fs, directory))

(***************************************************************************)
(* C9 -- Batching: a run that found N eligible files with batch size B     *)
(* called the extraction collaborator ceil(N/B) times, each time with at   *)
(* most B files.                                                           *)
(***************************************************************************)
C9_Batching ==
  Ended => calls = Ceil(eligible, batchSize) /\ largest <= batchSize

\* three eligible files in batches of two: a full batch and a trailing one
C9_Witness ==
  /\ pc = "idle" /\ outcome = "returned"
  /\ eligible = 3 /\ batchSize = 2 /\ calls = 2 /\ largest = 2

(***************************************************************************)
(* The ranking of the last search, filtered as section 4.6 step 3 says.    *)
(***************************************************************************)
IsPrefix(s, t) == Len(s) <= Len(t) /\ \A i \in 1..Len(s) : s[i] = t[i]

\* the absolute paths of the queries that are file references
QueryFiles(q) ==
  {abspath(q.directory, AllQueries(q)[i]) :
     i \in {j \in 1..Len(AllQueries(q)) : is_file_path(AllQueries(q)[j])}}

\* the path a ranking element stands for
PathOf(q, x) == get_features(store, q.directory)[x.index]

\* the ranking elements that are neither excluded nor a query file
Kept(q, x) ==
  ~exclude_dir_match(PathOf(q, x)) /\ PathOf(q, x) \notin QueryFiles(q)

Survivors(q) == SelectSeq(q.sorted_similarities, LAMBDA x : Kept(q, x))

\* the place in the ranking of its k-th survivor (0 for k = 0)
PositionOfSurvivor(q, k) ==
  IF k = 0 THEN 0
  ELSE CHOOSE n \in 1..Len(q.sorted_similarities) :
         /\ Kept(q, q.sorted_similarities[n])
         /\ Cardinality({j \in 1..n : Kept(q, q.sorted_similarities[j])}) = k

(***************************************************************************)
(* C11 -- Top-K stability: for the store and the ranking of the last       *)
(* search and every k1 <= k2, search with top_k = k1 returns a prefix, in  *)
(* the same order, of what search with top_k = k2 returns.                 *)
(***************************************************************************)
C11_TopKStable ==
  /\ result = search(store, sq).results
  /\ \A k1 \in 0..MaxTopK, k2 \in 0..MaxTopK :
       k1 <= k2 => IsPrefix(search(store, [sq EXCEPT !.top_k = k1]).results,
                            search(store, [sq EXCEPT !.top_k = k2]).results)

\* three results, the shorter answers being proper prefixes, with an
\* excluded record ranked among them
C11_Witness ==
  /\ sq # NoSearch /\ sq.top_k = 3 /\ Len(result) = 3
  /\ store[PX] # NoRec /\ sq.directory = <<"r">>
  /\ PathOf(sq, sq.sorted_similarities[2]) = PX
  /\ Len(search(store, [sq EXCEPT !.top_k = 2]).results) = 2

(***************************************************************************)
(* C17 -- search returns at most top_k results, by descending score, none  *)
(* of them inside an excluded directory: exactly the first top_k elements  *)
(* of the ranking that pass the exclusion and the query-file filters.      *)
(***************************************************************************)
C17_FirstSurvivors ==
  /\ Len(result) <= sq.top_k
  /\ \A i \in 1..(Len(result) - 1) : result[i].score > result[i + 1].score
  /\ \A i \in 1..Len(result) : ~exclude_dir_match(result[i].filepath)
  /\ result = [i \in 1..Min(sq.top_k, Len(Survivors(sq))) |->
                 [filepath |-> PathOf(sq, Survivors(sq)[i]),
                  score |-> Survivors(sq)[i].score]]

\* the best-ranked record lies in an excluded directory, a query file is
\* dropped as well, and more candidates survive than top_k asks for
C17_Witness ==
  /\ sq # NoSearch /\ sq.top_k = 1 /\ Len(result) = 1
  /\ sq.directory = <<"r">> /\ store[PX] # NoRec
  /\ PathOf(sq, sq.sorted_similarities[1]) = PX
  /\ QueryFiles(sq) # {}
  /\ Len(Survivors(sq)) = 2

(***************************************************************************)
(* C18 -- Early stop: search consumes the ranking only up to its top_k-th  *)
(* survivor, and all of it only when fewer than top_k elements survive.    *)
(***************************************************************************)
C18_StopsEarly ==
  examined <= IF Len(Survivors(sq)) >= sq.top_k
              THEN PositionOfSurvivor(sq, sq.top_k)
              ELSE Len(sq.sorted_similarities)

\* four candidates, the first filtered out, the second returned, and the
\* last two never looked at
C18_Witness ==
  /\ sq # NoSearch /\ sq.top_k = 1 /\ Len(sq.sorted_similarities) = 4
  /\ ~Kept(sq, sq.sorted_similarities[1])
  /\ Len(result) = 1 /\ examined = 2

(***************************************************************************)
(* C12 -- The counting thread has completed whenever control has left      *)
(* ensure_index, by return or by an exception.                             *)
(***************************************************************************)
C12_CounterJoined == Ended => counter_thread # "running"

\* the loop and the trailing flush of the current run are over
Reconciled == pc \in {"commit", "join", "sweep"}

(***************************************************************************)
(* C13 -- Rename needs no re-extraction: the file b has no record, its     *)
(* content is that of the record of the vanished a; once the run has       *)
(* reconciled the tree, b carries the hash and the vector of that record   *)
(* and the image of b was never handed to compute_image_features.          *)
(***************************************************************************)
C13_RenameNotExtracted ==
  \A a, b \in Paths :
    (Reconciled /\ mode # "resume" /\ faults = 0 /\ Renamed(a, b))
      => /\ store[b] # NoRec
         /\ store[b].hash = startStore[a].hash
         /\ store[b].vector = startStore[a].vector
         /\ b \notin extracted

\* a record as the start of a run leaves it when it is not touched again
Unflagged(rec) == IF rec = NoRec THEN NoRec ELSE [rec EXCEPT !.indexing = FALSE]

\* no scanned file has the content of another scanned file or of a record
\* at another path: rename detection never fires in this run
NoRenameCase ==
  \A p \in SeqToSet(walk(fs, directory)) :
    /\ \A q \in SeqToSet(walk(fs, directory)) \ {p} :
         fs[q].content # fs[p].content
    /\ \A q \in Paths \ {p} :
         startStore[q] # NoRec => startStore[q].hash # fs[p].content

\* the record at p was written by an upsert of the current or last run
Written(p) ==
  /\ Under(p, directory) /\ store[p] # NoRec /\ ~store[p].indexing
  /\ \A q \in Paths : store[p] # Unflagged(startStore[q])

(***************************************************************************)
(* C14 -- Per-file failures leave the other records right: every record a  *)
(* batch flush writes belongs to a file that decodes, and carries the      *)
(* metadata, the content hash and the vector of the file at its own path,  *)
(* also when other files of the batch fail to decode or to be hashed.      *)
(***************************************************************************)
C14_RecordsAligned ==
  ((pc # "idle" \/ ~fsChanged) /\ mode # "resume" /\ NoRenameCase)
    => \A p \in Paths :
         Written(p)
           => /\ fs[p] # NoFile /\ Decodable(fs, p)
              /\ is_image_meta_equal(store[p], get_image_meta(fs, p))
              /\ store[p].hash = compute_image_hash(fs, p)
              /\ store[p].vector = compute_image_features(<<fs[p].content>>)[1]

(***************************************************************************)
(* C19 -- Frame: ensure_index(root) does nothing to a record whose path is *)
(* not under root but clear its flag, also when a file under root has the  *)
(* content hash of such a record.                                          *)
(***************************************************************************)
C19_OutsideUntouched ==
  (mode # "resume" /\ (pc # "idle" \/ Ended))
    => \A p \in Paths :
         ~Under(p, directory) => store[p] = Unflagged(startStore[p])

(***************************************************************************)
(* C15 -- A failed extraction call costs its batch and nothing else: the   *)
(* step in which compute_image_features fails changes no record, empties   *)
(* the batch and goes on with the next entry or the final commit, and a    *)
(* run with such a batch that meets no store error returns, its last       *)
(* state committed.                                                        *)
(***************************************************************************)
C15_BatchSkipped ==
  /\ [][(failed' # failed /\ failed' # {})
         => /\ store' = store
            /\ batch' = <<>> /\ metas' = <<>>
            /\ pc' = (IF pc = "loop" THEN "loop" ELSE "commit")
            /\ (pc = "loop" => todo' = Tail(todo))]_vars
  /\ []((Ended /\ failed # {} /\ outcome # "StoreWriteError")
          => (outcome = "returned" /\ committed = store))

\* batches of one: the extraction for r/a.jpg failed, and the later entry
\* r/s/c.png was still extracted and written before the run returned
C15_Witness ==
  /\ pc = "idle" /\ outcome = "returned" /\ batchSize = 1
  /\ directory = <<"r">> /\ failed = {PA} /\ store[PA] = NoRec
  /\ PC \in extracted /\ store[PC] # NoRec /\ startStore[PC] = NoRec

C20_Terminates ==
  \A n \in 1..MaxRuns :
    (pc = "loop" /\ runs = n)
      ~> (pc = "idle" /\ runs = n
            /\ outcome \in {"returned", "StoreWriteError"})

=============================================================================
